---- MODULE Spec2Model ----
(***************************************************************************)
(* svn-visualizer: the incremental gather command (gather.ts), the older   *)
(* one-shot gather of cli.ts, the data file (serializer.ts), the svn log   *)
(* export (svn.ts), the log parser (parser.ts) and the fixed-range         *)
(* aggregation (aggregator.ts).                                            *)
(*                                                                         *)
(* Instants are JavaScript Date values: integer milliseconds.  An ISO-8601 *)
(* string is modelled by what toISOString() writes, the whole seconds and  *)
(* the milliseconds field, and `new Date(iso)` by what it reads back.      *)
(* A nullable value is a sequence of length 0 (null) or 1.                 *)
(***************************************************************************)
EXTENDS Integers, Sequences, FiniteSets, TLC

VARIABLES
    dataFile,   \* svn_data.json: <<>> when the file does not exist, else <<content>>
    clock,      \* the wall clock read by `new Date()`, in milliseconds
    upstream,   \* the svn repository's log: upstream[r] is the logentry of revision r
    last,       \* what the last command run did (its inputs, outputs and outcome)
    args,       \* the arguments of a function under test
    result      \* the values it returned, in order

vars == <<dataFile, clock, upstream, last, args, result>>

----------------------------------------------------------------------------
(* Bounds of the model *)

MaxRev == 2        \* revisions are 1..MaxRev
MaxTick == 4       \* the clock runs from 0 to MaxTick half seconds
MaxDay == 2        \* aggregated instants lie on the local days 0..MaxDay after EpochDay
MaxCommits == 2    \* commits in an aggregated list
FirstYear == 2019   \* week labels are taken of the days of FirstYear..LastYear
LastYear == 2027
EpochDay == 19357  \* the day of instant 0, in days since 1970-01-01: 2022-12-31, a Saturday

(* Program constants *)

OneSecond == 1000

DayMs == 86400000

HalfSecond == OneSecond \div 2

Authors == {"a", "b"}

None == <<>>

Some(x) == <<x>>

Min(S) == CHOOSE x \in S : \A y \in S : x <= y

Max(S) == CHOOSE x \in S : \A y \in S : x >= y

----------------------------------------------------------------------------
(* Date <-> ISO string *)

toISOString(t) == [sec |-> t \div OneSecond, ms |-> t % OneSecond]

newDate(iso) == iso.sec * OneSecond + iso.ms

----------------------------------------------------------------------------
(* parser.ts *)

\* A <logentry> whose <author>, <date> and <msg> elements are all there.
LogEntry(r, a, t, m) ==
    [revision |-> r, author |-> Some(a), date |-> Some(toISOString(t)), msg |-> m]

\* What `svn log` prints for revision 0: a date and nothing else.
RevisionZero ==
    [revision |-> 0, author |-> None, date |-> Some(toISOString(0)), msg |-> None]

\* parseCommits throws on a logentry without author or date, or whose
\* revision is not a positive integer (CommitSchema).
EntryIsValid(e) == e.author # None /\ e.date # None /\ e.revision > 0

ParseThrows(xmlLog) == \E i \in DOMAIN xmlLog : ~EntryIsValid(xmlLog[i])

parseCommits(xmlLog) ==
    [i \in DOMAIN xmlLog |->
        [revision |-> xmlLog[i].revision,
         author   |-> xmlLog[i].author[1],
         date     |-> newDate(xmlLog[i].date[1]),
         message  |-> IF xmlLog[i].msg = None THEN "" ELSE xmlLog[i].msg[1]]]

----------------------------------------------------------------------------
(* serializer.ts *)

serializeData(commits, dateRange) ==
    [commits   |-> [i \in DOMAIN commits |->
                      [revision |-> commits[i].revision,
                       author   |-> commits[i].author,
                       date     |-> toISOString(commits[i].date),
                       message  |-> commits[i].message]],
     dateRange |-> [start |-> toISOString(dateRange.start),
                    end   |-> toISOString(dateRange.end)]]

deserializeData(content) ==
    [commits   |-> [i \in DOMAIN content.commits |->
                      [revision |-> content.commits[i].revision,
                       author   |-> content.commits[i].author,
                       date     |-> newDate(content.commits[i].date),
                       message  |-> content.commits[i].message]],
     dateRange |-> [start |-> newDate(content.dateRange.start),
                    end   |-> newDate(content.dateRange.end)]]

----------------------------------------------------------------------------
(* svn.ts *)

\* The --revision argument of the svn command line: {start}:{end} when both
\* dates are given, no such argument otherwise.
exportSvnLogArgs(params) ==
    IF params.startDate # None /\ params.endDate # None
    THEN Some([from |-> toISOString(params.startDate[1]),
               to   |-> toISOString(params.endDate[1])])
    ELSE None

\* The promise of exportSvnLog: resolved with svn's output, or rejected.
Resolved(xmlLog) == [ok |-> TRUE, xmlLog |-> xmlLog]

Rejected == [ok |-> FALSE, xmlLog |-> <<>>]

----------------------------------------------------------------------------
(* gather.ts: executeGather *)

isIncremental == dataFile # None

existingData == deserializeData(dataFile[1])

existingCommits == IF isIncremental THEN existingData.commits ELSE <<>>

\* "Add 1 second to avoid duplicate"
incrementalStart(lastCommitDate) == lastCommitDate + OneSecond

\* A strict comparison in place of >=.
UpToDate_Strict(start, now) == start > now

\* `if (incrementalStart >= now) return`
UpToDate(start, now) == start >= now

dateRange ==
    IF isIncremental
    THEN Some([start |-> incrementalStart(existingData.dateRange.end), end |-> clock])
    ELSE None

\* An end date that falls back to the range's own end or, without one, to now.
SvnExportParams_EndNow(range) ==
    [startDate |-> IF range = None THEN None ELSE Some(range[1].start),
     endDate   |-> IF range = None THEN Some(clock) ELSE Some(range[1].end)]

\* The parameters executeGather hands to exportSvnLog: dateRange?.start ?? null
SvnExportParams(range) ==
    [startDate |-> IF range = None THEN None ELSE Some(range[1].start),
     endDate   |-> IF range = None THEN None ELSE Some(range[1].end)]

existingRevisions(existing) == {existing[i].revision : i \in DOMAIN existing}

\* No filter on the revision.
uniqueNewCommits_NoFilter(existing, newCommits) == newCommits

uniqueNewCommits(existing, newCommits) ==
    SelectSeq(newCommits, LAMBDA c : c.revision \notin existingRevisions(existing))

\* The fetched commits appended as they are, the filtered list unused.
allCommits_Append(incremental, existing, newCommits) ==
    IF incremental THEN existing \o newCommits ELSE newCommits

\* The fetched commits alone, the existing ones forgotten.
allCommits_Replace(incremental, existing, newCommits) == newCommits

\* The existing commits are deduplicated against the new ones, not the reverse.
allCommits_PreferNew(incremental, existing, newCommits) ==
    IF incremental
    THEN SelectSeq(existing, LAMBDA c : c.revision \notin existingRevisions(newCommits))
             \o newCommits
    ELSE newCommits

\* `let allCommits = newCommits; if (isIncremental) allCommits = [...existing, ...unique]`
allCommits(incremental, existing, newCommits) ==
    IF incremental THEN existing \o uniqueNewCommits(existing, newCommits) ELSE newCommits

\* The dates of the first and the last commit, as if the list were sorted.
actualDateRange_FirstLast(commits) ==
    [start |-> commits[1].date, end |-> commits[Len(commits)].date]

\* Math.min / Math.max over the commit dates
actualDateRange(commits) ==
    [start |-> Min({commits[i].date : i \in DOMAIN commits}),
     end   |-> Max({commits[i].date : i \in DOMAIN commits})]

\* The merge of an incremental run: the sequence it writes and the count it logs.
merge(existing, incoming) ==
    [merged   |-> allCommits(TRUE, existing, incoming),
     newCount |-> Len(uniqueNewCommits(existing, incoming))]

NoParams == [startDate |-> None, endDate |-> None]

\* The records of newCommits that the revision filter drops.
droppedCommits(existing, newCommits) ==
    SelectSeq(newCommits, LAMBDA c : c.revision \in existingRevisions(existing))

\* The record of a run, kept in `last`.
Ran(op, outcome, invoked, params, dropped, newCount) ==
    [op |-> op, outcome |-> outcome, invoked |-> invoked, params |-> params,
     svnArgs |-> IF invoked THEN exportSvnLogArgs(params) ELSE None,
     dropped |-> dropped, newCount |-> newCount]

Idle(op) == Ran(op, "none", FALSE, NoParams, <<>>, 0)

\* One run of the gather command; `outputs` is what exportSvnLog may settle to
\* when called with SvnExportParams(dateRange).
\* The empty fetch let through when a data file exists.
NoNewCommits_FirstRunOnly(newCommits) == Len(newCommits) = 0 /\ ~isIncremental

\* `newCommits.length === 0`
NoNewCommits(newCommits) == Len(newCommits) = 0

\* Only a log that does not parse ends the run.
Failed_ParseOnly(out) == ParseThrows(out.xmlLog)

\* exportSvnLog rejects or parseCommits throws: main().catch ends the run.
Failed(out) == ~out.ok \/ ParseThrows(out.xmlLog)

executeGather(outputs) ==
    /\ UNCHANGED <<clock, upstream, args, result>>
    /\ IF isIncremental /\ UpToDate(incrementalStart(existingData.dateRange.end), clock)
       THEN /\ dataFile' = dataFile
            /\ last' = Ran("gather", "uptodate", FALSE, NoParams, <<>>, 0)
       ELSE \E out \in outputs :
            LET params == SvnExportParams(dateRange) IN
            IF Failed(out)
            THEN /\ dataFile' = dataFile
                 /\ last' = Ran("gather", "fatal", TRUE, params, <<>>, 0)
            ELSE LET newCommits == parseCommits(out.xmlLog)
                     all == allCommits(isIncremental, existingCommits, newCommits)
                 IN  IF NoNewCommits(newCommits)
                     THEN /\ dataFile' = dataFile
                          /\ last' = Ran("gather", "nocommits", TRUE, params, <<>>, 0)
                     ELSE /\ dataFile' = Some(serializeData(all, actualDateRange(all)))
                          /\ last' = Ran("gather", "saved", TRUE, params,
                                         droppedCommits(existingCommits, newCommits),
                                         Len(all) - Len(existingCommits))

----------------------------------------------------------------------------
(* The environment of the gather command *)

\* The author, date and message a logentry may carry.
EntryFields ==
    {[author |-> "a", date |-> 0,          msg |-> None],
     [author |-> "b", date |-> HalfSecond, msg |-> Some("m")]}

LogEntries ==
    {LogEntry(r, f.author, f.date, f.msg) : r \in 1..MaxRev, f \in EntryFields}

\* svn prints each revision of the range once.
ValidLogs ==
    UNION {{x \in [1..k -> LogEntries] :
               \A i, j \in 1..k : x[i].revision = x[j].revision => i = j} :
           k \in 0..MaxRev}

\* A range that starts at revision 0 begins with its logentry.
XmlLogs == ValidLogs \cup {<<RevisionZero>> \o x : x \in ValidLogs}

\* Any settlement of exportSvnLog, whatever the repository holds.
AnyOutputs == {Rejected} \cup {Resolved(x) : x \in XmlLogs}

Tick ==
    /\ clock < MaxTick * HalfSecond
    /\ clock' = clock + HalfSecond
    /\ last' = Idle("tick")
    /\ UNCHANGED <<dataFile, upstream, args, result>>

\* "To fetch all history again, delete svn_data.json first"
DeleteDataFile ==
    /\ dataFile # None
    /\ dataFile' = None
    /\ last' = Idle("delete")
    /\ UNCHANGED <<clock, upstream, args, result>>

Gather == executeGather(AnyOutputs)

NoCall == [fn |-> "none"]

Init ==
    /\ dataFile = None
    /\ clock = 0
    /\ upstream = <<>>
    /\ last = Idle("init")
    /\ args = NoCall
    /\ result = <<>>

Next == Tick \/ DeleteDataFile \/ Gather

Spec == Init /\ [][Next]_vars

----------------------------------------------------------------------------
(* cli.ts: the one-shot gather of the older command line, which writes what
   it fetched and does not read the data file. *)

executeGatherCli(outputs) ==
    /\ UNCHANGED <<clock, upstream, args, result>>
    /\ \E out \in outputs :
        IF ~out.ok \/ ParseThrows(out.xmlLog)
        THEN /\ dataFile' = dataFile
             /\ last' = Ran("gatherCli", "fatal", TRUE, NoParams, <<>>, 0)
        ELSE LET commits == parseCommits(out.xmlLog)
             IN  IF Len(commits) = 0
                 THEN /\ dataFile' = dataFile
                      /\ last' = Ran("gatherCli", "nocommits", TRUE, NoParams, <<>>, 0)
                 ELSE /\ dataFile' = Some(serializeData(commits, actualDateRange(commits)))
                      /\ last' = Ran("gatherCli", "saved", TRUE, NoParams, <<>>, Len(commits))

GatherCli == executeGatherCli(AnyOutputs)

NextCli == Tick \/ DeleteDataFile \/ Gather \/ GatherCli

SpecCli == Init /\ [][NextCli]_vars

----------------------------------------------------------------------------
(* Properties of the gather command *)

persisted == IF dataFile = None THEN <<>> ELSE deserializeData(dataFile[1]).commits

WithRevision(commits, r) == {i \in DOMAIN commits : commits[i].revision = r}

GatherRan == last.op = "gather"

\* C1: in an incremental gather run that writes the data file, every revision
\* that is both in the existing commits and among the fetched ones has exactly
\* one record in the written sequence, and it is the existing record, at its
\* place, with the existing author, date and message.
C1_DedupKeepsExisting ==
    [][(GatherRan' /\ last'.outcome = "saved" /\ isIncremental) =>
          \A k \in DOMAIN last'.dropped :
              LET r == last'.dropped[k].revision IN
              /\ Cardinality(WithRevision(persisted', r)) = 1
              /\ \E i \in WithRevision(persisted, r) :
                    i \in DOMAIN persisted' /\ persisted'[i] = persisted[i]]_vars

\* C1 witness: a run has saved after dropping a fetched record whose author,
\* date and message differ from those of the persisted record of its revision.
C1_Witness ==
    /\ GatherRan /\ last.outcome = "saved"
    /\ \E k \in DOMAIN last.dropped : \E i \in DOMAIN persisted :
          /\ persisted[i].revision = last.dropped[k].revision
          /\ persisted[i].author # last.dropped[k].author
          /\ persisted[i].date # last.dropped[k].date
          /\ persisted[i].message # last.dropped[k].message

\* C2: the persisted commits never hold two records of one revision (every
\* log svn prints holds each revision at most once).
C2_NoDuplicateRevision ==
    \A i, j \in DOMAIN persisted :
        persisted[i].revision = persisted[j].revision => i = j

\* C2 witness: an incremental run has saved new commits next to existing ones
\* while dropping a fetched revision it already had.
C2_Witness ==
    /\ GatherRan /\ last.outcome = "saved"
    /\ last.newCount > 0 /\ Len(last.dropped) > 0

\* C4: a step that leaves the data file in place keeps every persisted record,
\* field for field, and the persisted sequence does not get shorter.
C4_RecordsKept ==
    [][(dataFile # None /\ dataFile' # None) =>
          /\ Len(persisted') >= Len(persisted)
          /\ \A i \in DOMAIN persisted : \E j \in DOMAIN persisted' :
                persisted'[j] = persisted[i]]_vars

\* C4 witness: an incremental run has added new commits to a non-empty set.
C4_Witness ==
    /\ GatherRan /\ last.outcome = "saved" /\ last.params # NoParams
    /\ last.newCount > 0 /\ Len(persisted) > last.newCount

storedRange == deserializeData(dataFile[1]).dateRange

\* C5: the stored dateRange is the minimum and the maximum date of the commits
\* stored with it, and start <= end.
C5_RangeIsMinMax ==
    dataFile # None =>
        /\ storedRange.start <= storedRange.end
        /\ \E i \in DOMAIN persisted : persisted[i].date = storedRange.start
        /\ \E i \in DOMAIN persisted : persisted[i].date = storedRange.end
        /\ \A i \in DOMAIN persisted :
              storedRange.start <= persisted[i].date /\ persisted[i].date <= storedRange.end

\* C5 witness: an incremental run has saved commits of different dates, the
\* later one first, and the stored range is not the window it asked svn for.
C5_Witness ==
    /\ GatherRan /\ last.outcome = "saved" /\ last.params # NoParams
    /\ storedRange.start < storedRange.end
    /\ persisted[1].date = storedRange.end
    /\ storedRange.start # last.params.startDate[1]
    /\ storedRange.end # last.params.endDate[1]

\* C6: an incremental run hands svn the window from the stored range's end plus
\* one second to now; when that start is not before now it hands svn nothing
\* and ends as up to date.
C6_WindowPlanning ==
    [][(GatherRan' /\ isIncremental) =>
          LET start == storedRange.end + 1000 IN
          IF start >= clock
          THEN last'.outcome = "uptodate" /\ ~last'.invoked
          ELSE /\ last'.invoked
               /\ last'.params = [startDate |-> Some(start), endDate |-> Some(clock)]]_vars

\* C6 witness: a run has handed svn a window that ends now.
C6_Witness ==
    /\ GatherRan /\ last.invoked
    /\ last.params.startDate # None
    /\ last.params.endDate = Some(clock)
    /\ last.params.startDate[1] = storedRange.end + 1000

\* C7: without a data file svn is run with no date filter; with a data file
\* whose window start is not before now svn is not run and the data file is
\* left as it is.
C7_FetchAllOrNothing ==
    [][GatherRan' =>
          /\ ~isIncremental =>
                /\ last'.invoked
                /\ last'.params = NoParams
                /\ last'.svnArgs = None
          /\ (isIncremental /\ storedRange.end + 1000 >= clock) =>
                /\ ~last'.invoked
                /\ last'.outcome = "uptodate"
                /\ dataFile' = dataFile]_vars

\* C7 witness: a run has found the data up to date at the very instant the
\* window would start.
C7_Witness ==
    /\ GatherRan /\ last.outcome = "uptodate" /\ ~last.invoked
    /\ storedRange.end + 1000 = clock

----------------------------------------------------------------------------
(* The merge alone, on any two commit sequences: the merge of a run, and the
   merge of the next run when svn prints the same log again. *)

Commits == {parseCommits(<<e>>)[1] : e \in LogEntries}

CommitSeqs == UNION {[1..k -> Commits] : k \in 0..MaxRev}

InitMerge ==
    /\ dataFile = None
    /\ clock = 0
    /\ upstream = <<>>
    /\ last = Idle("init")
    /\ args \in {[fn |-> "merge", existing |-> a, incoming |-> b] :
                    a \in CommitSeqs, b \in CommitSeqs}
    /\ result = <<>>

MergeOnce ==
    /\ Len(result) = 0
    /\ result' = <<merge(args.existing, args.incoming)>>
    /\ UNCHANGED <<dataFile, clock, upstream, last, args>>

MergeAgain ==
    /\ Len(result) = 1
    /\ result' = Append(result, merge(result[1].merged, args.incoming))
    /\ UNCHANGED <<dataFile, clock, upstream, last, args>>

NextMerge == MergeOnce \/ MergeAgain

SpecMerge == InitMerge /\ [][NextMerge]_vars

\* C3: merging the same incoming sequence a second time adds nothing: the
\* second merge counts 0 new commits and returns the first merged sequence.
C3_MergeIdempotent ==
    Len(result) = 2 =>
        /\ result[2].newCount = 0
        /\ result[2].merged = result[1].merged

\* C3 witness: both merges are done, and the first one kept some of the
\* incoming commits and dropped others.
C3_Witness ==
    /\ Len(result) = 2
    /\ Len(args.existing) > 0
    /\ result[1].newCount > 0
    /\ result[1].newCount < Len(args.incoming)

----------------------------------------------------------------------------
(* The gather command against a repository that grows.  A commit is dated by
   the clock.  Given --revision {from}:{to}, svn turns each date into the
   youngest revision not younger than it and prints the revisions between
   the two; the fetch contract of the design is a filter on the dates.  Both
   selections are outputs the run may get. *)

entryDate(e) == newDate(e.date[1])

SvnCommit ==
    /\ Len(upstream) < MaxRev
    /\ \E a \in Authors :
          upstream' = Append(upstream, LogEntry(Len(upstream) + 1, a, clock, Some("m")))
    /\ last' = Idle("commit")
    /\ UNCHANGED <<dataFile, clock, args, result>>

Reverse(x) == [i \in DOMAIN x |-> x[Len(x) + 1 - i]]

ByDate(from, to) ==
    SelectSeq(upstream, LAMBDA e : from <= entryDate(e) /\ entryDate(e) <= to)

Dated(d) == Max({0} \cup {r \in DOMAIN upstream : entryDate(upstream[r]) <= d})

ByRevision(from, to) ==
    [k \in 1..(Dated(to) - Dated(from) + 1) |->
        IF Dated(from) + k - 1 = 0 THEN RevisionZero ELSE upstream[Dated(from) + k - 1]]

SvnLog(revisionArg) ==
    IF revisionArg = None
    THEN {Reverse(upstream)}
    ELSE {ByDate(newDate(revisionArg[1].from), newDate(revisionArg[1].to)),
          ByRevision(newDate(revisionArg[1].from), newDate(revisionArg[1].to))}

UpstreamOutputs ==
    {Rejected} \cup
    {Resolved(x) : x \in SvnLog(exportSvnLogArgs(SvnExportParams(dateRange)))}

GatherUpstream == executeGather(UpstreamOutputs)

NextUp == Tick \/ SvnCommit \/ DeleteDataFile \/ GatherUpstream

SpecUp == Init /\ [][NextUp]_vars

----------------------------------------------------------------------------
(* Date.  An instant is the UTC day since 1970-01-01 and the millisecond of
   that day: a count of milliseconds from the epoch does not fit a 32-bit
   integer.  The time zone of the process is a standard offset from
   UTC in whole hours, args.tz, and the months of daylight saving time,
   args.dst (none for a zone without it); clocks change at 02:00 standard
   time of the first day of a month, so every local midnight exists once. *)

HourMs == DayMs \div 24

\* The value of a `const`: the element of the one-element set that binds it.
Only(S) == CHOOSE x \in S : TRUE

Instant(day, ms) == [day |-> day, ms |-> ms]

\* date1 >= date2
NotBefore(date1, date2) ==
    \/ date1.day > date2.day
    \/ date1.day = date2.day /\ date1.ms >= date2.ms

\* Year, month (1..12) and day of month of day n of the proleptic Gregorian
\* calendar.
civil(n) ==
    LET z   == n + 719468
        era == z \div 146097
        doe == z - era * 146097
        yoe == (doe - (doe \div 1460) + (doe \div 36524) - (doe \div 146096)) \div 365
        doy == doe - (365 * yoe + (yoe \div 4) - (yoe \div 100))
        mp  == (5 * doy + 2) \div 153
        m   == IF mp < 10 THEN mp + 3 ELSE mp - 9
    IN  [year  |-> yoe + era * 400 + (IF m <= 2 THEN 1 ELSE 0),
         month |-> m,
         day   |-> doy - ((153 * mp + 2) \div 5) + 1]

daysFromCivil(year, month, day) ==
    LET y   == IF month <= 2 THEN year - 1 ELSE year
        era == y \div 400
        yoe == y - era * 400
        mp  == IF month > 2 THEN month - 3 ELSE month + 9
        doy == ((153 * mp + 2) \div 5) + day - 1
        doe == yoe * 365 + (yoe \div 4) - (yoe \div 100) + doy
    IN  era * 146097 + doe - 719468

\* The instant `hours` hours later.
Shifted(date, hours) ==
    Instant(date.day + ((date.ms + hours * HourMs) \div DayMs),
            (date.ms + hours * HourMs) % DayMs)

\* Daylight saving time is in force at the instant.
InDst(date) == args.dst # {} /\ civil(Shifted(date, args.tz - 2).day).month \in args.dst

\* The offset of local time from UTC at the instant, in hours.
timezoneOffset(date) == args.tz + (IF InDst(date) THEN 1 ELSE 0)

\* The local calendar day of the instant and the millisecond of that day.
localTime(date) == Shifted(date, timezoneOffset(date))

\* The instant of millisecond ms of the local day.
fromLocalTime(day, ms) ==
    IF InDst(Shifted(Instant(day, ms), 0 - (args.tz + 1)))
    THEN Shifted(Instant(day, ms), 0 - (args.tz + 1))
    ELSE Shifted(Instant(day, ms), 0 - args.tz)

\* The instant of local 00:00:00.000 of day n.
localMidnight(n) == fromLocalTime(n, 0)

\* new Date(year, monthIndex, day)
localDate(year, monthIndex, day) ==
    fromLocalTime(daysFromCivil(year + (monthIndex \div 12), (monthIndex % 12) + 1, 1) + day - 1, 0)

\* (later.getTime() - earlier.getTime()) in hours; both are whole hours of UTC.
hoursBetween(later, earlier) ==
    (later.day - earlier.day) * 24 + ((later.ms - earlier.ms) \div HourMs)

getFullYear(date) == civil(localTime(date).day).year

getMonth(date) == civil(localTime(date).day).month - 1

getDate(date) == civil(localTime(date).day).day

\* 0 is Sunday; 1970-01-01 was a Thursday.
getDay(date) == (localTime(date).day + 4) % 7

getHours(date) == localTime(date).ms \div HourMs

setHours(date, h, m, sec, ms) ==
    fromLocalTime(localTime(date).day, ((h * 60 + m) * 60 + sec) * 1000 + ms)

\* Date.setDate: the day of month, carried into the next or the previous month.
setDate(date, dayOfMonth) ==
    fromLocalTime(localTime(date).day + dayOfMonth - getDate(date), localTime(date).ms)

\* Date.setMonth: the month is carried into the year, and a day of month the
\* new month does not have is carried into the month after it.
setMonth(date, month) ==
    fromLocalTime(daysFromCivil(getFullYear(date) + (month \div 12), (month % 12) + 1, 1)
                      + getDate(date) - 1,
                  localTime(date).ms)

----------------------------------------------------------------------------
(* aggregator.ts *)

\* getIsoWeek: `Math.ceil(((d - yearStart) / 86400000 + 1) / 7)`, d and
\* yearStart being local midnights; the difference is taken in hours.
getIsoWeek(date) ==
    LET d0        == setHours(date, 0, 0, 0, 0)
        d         == setDate(d0, getDate(d0) + 4 - (IF getDay(d0) = 0 THEN 7 ELSE getDay(d0)))
        yearStart == localDate(getFullYear(d), 0, 1)
        hours     == hoursBetween(d, yearStart)
    IN  [year |-> getFullYear(d), week |-> (hours + 24 + (7 * 24 - 1)) \div (7 * 24)]

\* `YYYY-MM-DD`: the label is its three zero-padded fields.
formatDay(date) ==
    LET local == civil(localTime(date).day)
    IN  [year |-> local.year, month |-> (local.month - 1) + 1, day |-> local.day]

\* `YYYY-Wxx`
formatWeek(date) ==
    LET iso == getIsoWeek(date) IN [year |-> iso.year, week |-> iso.week]

\* `YYYY-MM`
formatMonth(date) ==
    LET local == civil(localTime(date).day)
    IN  [year |-> local.year, month |-> (local.month - 1) + 1]

\* Map
EmptyMap == [k \in {} |-> 0]

MapHas(map, key) == key \in DOMAIN map

MapSet(map, key, value) ==
    [k \in DOMAIN map \cup {key} |-> IF k = key THEN value ELSE map[k]]

\* map.get(key) ?? 0
MapGet(map, key) == IF MapHas(map, key) THEN map[key] ELSE 0

MapInc(map, key) == MapSet(map, key, MapGet(map, key) + 1)

normalizedStart(startDate) == setHours(startDate, 0, 0, 0, 0)

normalizedEnd(endDate) == setHours(endDate, 23, 59, 59, 999)

\* "Initialize all periods with 0": `while (current <= normalizedEnd)`
RECURSIVE initPeriods(_, _, _)
initPeriods(current, end, maps) ==
    IF NotBefore(end, current)
    THEN Only({initPeriods(next, end,
                     [maps EXCEPT !.daily   = MapSet(@, formatDay(current), 0),
                                  !.weekly  = MapSet(@, formatWeek(current), 0),
                                  !.monthly = MapSet(@, formatMonth(current), 0)]) :
               next \in {setDate(current, getDate(current) + 1)}})
    ELSE maps

\* Only the first commit of the list is looked at.
filteredCommits_HeadOnly(commits, start, end) ==
    SelectSeq(IF Len(commits) = 0 THEN <<>> ELSE <<commits[1]>>,
              LAMBDA c : NotBefore(c.date, start) /\ NotBefore(end, c.date))

\* The start of the range left out.
filteredCommits_StartExclusive(commits, start, end) ==
    SelectSeq(commits, LAMBDA c : ~NotBefore(start, c.date) /\ NotBefore(end, c.date))

\* Every commit, in or out of the range.
filteredCommits_NoFilter(commits, start, end) == commits

\* The end of the range left out.
filteredCommits_EndExclusive(commits, start, end) ==
    SelectSeq(commits, LAMBDA c : NotBefore(c.date, start) /\ ~NotBefore(c.date, end))

filteredCommits(commits, start, end) ==
    SelectSeq(commits, LAMBDA c : NotBefore(c.date, start) /\ NotBefore(end, c.date))

\* The author's count is set to 1, whatever it was.
UserInc_SetOne(userMap, author, key) ==
    MapSet(userMap, author,
           MapSet(IF MapHas(userMap, author) THEN userMap[author] ELSE EmptyMap, key, 1))

\* A map created for every author, with or without commits.
UserInc_AllAuthors(userMap, author, key) ==
    [a \in DOMAIN userMap \cup Authors |->
        IF a = author
        THEN MapInc(IF MapHas(userMap, a) THEN userMap[a] ELSE EmptyMap, key)
        ELSE IF MapHas(userMap, a) THEN userMap[a] ELSE EmptyMap]

\* The user maps: the author's map is created when missing, then incremented.
UserInc(userMap, author, key) ==
    MapSet(userMap, author,
           MapInc(IF MapHas(userMap, author) THEN userMap[author] ELSE EmptyMap, key))

\* `for (const commit of filteredCommits)`
RECURSIVE countCommits(_, _, _)
countCommits(filtered, i, maps) ==
    IF i > Len(filtered)
    THEN maps
    ELSE Only({countCommits(filtered, i + 1,
                 [maps EXCEPT !.daily       = MapInc(@, day),
                              !.weekly      = MapInc(@, week),
                              !.monthly     = MapInc(@, month),
                              !.userDaily   = UserInc(@, commit.author, day),
                              !.userWeekly  = UserInc(@, commit.author, week),
                              !.userMonthly = UserInc(@, commit.author, month)]) :
               commit \in {filtered[i]},
               day    \in {formatDay(filtered[i].date)},
               week   \in {formatWeek(filtered[i].date)},
               month  \in {formatMonth(filtered[i].date)}})

aggregateCommits(commits, startDate, endDate) ==
    Only({Only({countCommits(filtered, 1,
                    initPeriods(start, end,
                        [daily |-> EmptyMap, weekly |-> EmptyMap, monthly |-> EmptyMap,
                         userDaily |-> EmptyMap, userWeekly |-> EmptyMap,
                         userMonthly |-> EmptyMap,
                         dateRange |-> [start |-> start, end |-> end]])) :
                filtered \in {filteredCommits(commits, start, end)}}) :
          start \in {normalizedStart(startDate)},
          end   \in {normalizedEnd(endDate)}})

----------------------------------------------------------------------------
(* aggregateCommits on any commit list and any range with start <= end, in a
   process of any of the time zones, none with daylight saving time. *)

TzHours == {-5, 0, 2}

\* The first and the last millisecond of the UTC days 0..MaxDay after EpochDay.
Instants == {Instant(EpochDay + d, tod) : d \in 0..MaxDay, tod \in {0, DayMs - 1}}

\* Noon UTC of the same days.
RangeInstants == {Instant(EpochDay + d, DayMs \div 2) : d \in 0..MaxDay}

AggCommits == [revision : {1}, author : Authors, date : Instants, message : {"m"}]

InitAgg ==
    /\ dataFile = None
    /\ clock = 0
    /\ upstream = <<>>
    /\ last = Idle("init")
    /\ \E tz \in TzHours :
       \E commits \in UNION {[1..k -> AggCommits] : k \in 0..MaxCommits} :
       \E startDate \in RangeInstants : \E endDate \in RangeInstants :
          /\ NotBefore(endDate, startDate)
          /\ args = [fn |-> "aggregateCommits", tz |-> tz, dst |-> {}, commits |-> commits,
                     startDate |-> startDate, endDate |-> endDate]
    /\ result = <<>>

Aggregate ==
    /\ args.fn = "aggregateCommits"
    /\ result = <<>>
    /\ result' = <<aggregateCommits(args.commits, args.startDate, args.endDate)>>
    /\ UNCHANGED <<dataFile, clock, upstream, last, args>>

NextAgg == Aggregate

SpecAgg == InitAgg /\ [][NextAgg]_vars

Aggregated == args.fn = "aggregateCommits" /\ result # <<>>

\* The local days from normalizedStart through normalizedEnd.
DaysOfRange ==
    {n \in localTime(args.startDate).day..localTime(args.endDate).day :
        /\ NotBefore(localMidnight(n), normalizedStart(args.startDate))
        /\ NotBefore(normalizedEnd(args.endDate), localMidnight(n))}

RECURSIVE SumOver(_, _)
SumOver(map, keys) ==
    IF keys = {} THEN 0
    ELSE LET k == CHOOSE x \in keys : TRUE IN map[k] + SumOver(map, keys \ {k})

MapSum(map) == SumOver(map, DOMAIN map)

InRange ==
    {i \in DOMAIN args.commits :
        /\ NotBefore(args.commits[i].date, normalizedStart(args.startDate))
        /\ NotBefore(normalizedEnd(args.endDate), args.commits[i].date)}

\* C9: the keys of the daily, weekly and monthly maps are exactly the day,
\* ISO-week and month labels of the calendar days from normalizedStart
\* through normalizedEnd.
C9_Density ==
    Aggregated =>
        /\ DOMAIN result[1].daily   = {formatDay(localMidnight(n))   : n \in DaysOfRange}
        /\ DOMAIN result[1].weekly  = {formatWeek(localMidnight(n))  : n \in DaysOfRange}
        /\ DOMAIN result[1].monthly = {formatMonth(localMidnight(n)) : n \in DaysOfRange}

\* C9 witness: a range of three days over two ISO weeks and two months, with
\* a commit outside the range and a day, a week and a month left at zero.
C9_Witness ==
    /\ Aggregated
    /\ Cardinality(DOMAIN result[1].daily) = 3
    /\ Cardinality(DOMAIN result[1].weekly) = 2
    /\ Cardinality(DOMAIN result[1].monthly) = 2
    /\ \E k \in DOMAIN result[1].daily : result[1].daily[k] = 0
    /\ \E k \in DOMAIN result[1].weekly : result[1].weekly[k] = 0
    /\ \E k \in DOMAIN result[1].monthly : result[1].monthly[k] = 0
    /\ InRange # DOMAIN args.commits

\* C10: the daily, the weekly and the monthly totals each sum to the number
\* of commits dated from normalizedStart through normalizedEnd.
C10_Conservation ==
    Aggregated =>
        /\ MapSum(result[1].daily) = Cardinality(InRange)
        /\ MapSum(result[1].weekly) = Cardinality(InRange)
        /\ MapSum(result[1].monthly) = Cardinality(InRange)

\* C10 witness: one commit at the last millisecond of the range is counted
\* and one commit after the range is not.
C10_Witness ==
    /\ Aggregated
    /\ Cardinality(InRange) = 1
    /\ Len(args.commits) = 2
    /\ \E i \in InRange : args.commits[i].date = normalizedEnd(args.endDate)
    /\ \E i \in DOMAIN args.commits :
          ~NotBefore(normalizedEnd(args.endDate), args.commits[i].date)

\* The filtered commits of one author.
InRangeOf(author) == {i \in InRange : args.commits[i].author = author}

AuthorsInRange == {args.commits[i].author : i \in InRange}

\* C11: an author has a per-author daily, weekly and monthly map iff the
\* author has a commit in the filtered set, and that map's keys are exactly
\* the labels of the periods of the author's filtered commits, each valued
\* with the number of those commits (at least 1); no label is there at zero.
C11_SparseUserMaps ==
    Aggregated =>
        /\ DOMAIN result[1].userDaily = AuthorsInRange
        /\ DOMAIN result[1].userWeekly = AuthorsInRange
        /\ DOMAIN result[1].userMonthly = AuthorsInRange
        /\ \A a \in AuthorsInRange :
            /\ DOMAIN result[1].userDaily[a] =
                   {formatDay(args.commits[i].date) : i \in InRangeOf(a)}
            /\ DOMAIN result[1].userWeekly[a] =
                   {formatWeek(args.commits[i].date) : i \in InRangeOf(a)}
            /\ DOMAIN result[1].userMonthly[a] =
                   {formatMonth(args.commits[i].date) : i \in InRangeOf(a)}
            /\ \A k \in DOMAIN result[1].userDaily[a] :
                   /\ result[1].userDaily[a][k] >= 1
                   /\ result[1].userDaily[a][k] = Cardinality(
                          {i \in InRangeOf(a) : formatDay(args.commits[i].date) = k})
            /\ \A k \in DOMAIN result[1].userWeekly[a] :
                   /\ result[1].userWeekly[a][k] >= 1
                   /\ result[1].userWeekly[a][k] = Cardinality(
                          {i \in InRangeOf(a) : formatWeek(args.commits[i].date) = k})
            /\ \A k \in DOMAIN result[1].userMonthly[a] :
                   /\ result[1].userMonthly[a][k] >= 1
                   /\ result[1].userMonthly[a][k] = Cardinality(
                          {i \in InRangeOf(a) : formatMonth(args.commits[i].date) = k})

\* C11 witness: over a range of three days, two weeks and two months, one
\* author has commits on one day only and the other author has none in the
\* range.
C11_Witness ==
    /\ Aggregated
    /\ Cardinality(DOMAIN result[1].daily) = 3
    /\ Cardinality(DOMAIN result[1].weekly) = 2
    /\ DOMAIN result[1].userDaily = {"a"}
    /\ Cardinality(DOMAIN result[1].userDaily["a"]) = 1
    /\ Cardinality(DOMAIN result[1].userWeekly["a"]) = 1
    /\ Cardinality(DOMAIN result[1].userMonthly["a"]) = 1
    /\ \E i \in DOMAIN args.commits : args.commits[i].author = "b"

----------------------------------------------------------------------------
\* new Date()
currentDate == args.now

----------------------------------------------------------------------------
(* The aggregator of the rolling dashboard (last 30 days, last 12 months,
   user totals, weekday, hour). *)

formatDayRolling(date) ==
    [year |-> getFullYear(date), month |-> getMonth(date) + 1, day |-> getDate(date)]

formatMonthRolling(date) ==
    [year |-> getFullYear(date), month |-> getMonth(date) + 1]

days == <<"Sunday", "Monday", "Tuesday", "Wednesday", "Thursday", "Friday", "Saturday">>

getWeekdayName(date) ==
    IF getDay(date) + 1 \in DOMAIN days THEN days[getDay(date) + 1] ELSE "Unknown"

normalizedStartRolling(startDate) == setHours(startDate, 0, 0, 0, 0)

normalizedEndRolling(endDate) == setHours(endDate, 23, 59, 59, 999)

\* Every commit, in or out of the range.
filteredCommitsRolling_NoFilter(commits, start, end) == commits

filteredCommitsRolling(commits, start, end) ==
    SelectSeq(commits, LAMBDA c : NotBefore(c.date, start) /\ NotBefore(end, c.date))

\* The window a day shorter.
thirtyDaysAgo_TwentyNine ==
    setHours(setDate(currentDate, getDate(currentDate) - 29), 0, 0, 0, 0)

thirtyDaysAgo == setHours(setDate(currentDate, getDate(currentDate) - 30), 0, 0, 0, 0)

twelveMonthsAgo ==
    setHours(setDate(setMonth(currentDate, getMonth(currentDate) - 12), 1), 0, 0, 0, 0)

\* `for (let i = 0; i < 30; i++)`
seedLast30Days ==
    [label \in {formatDayRolling(setDate(date, getDate(date) + i)) :
                    date \in {thirtyDaysAgo}, i \in 0..29} |-> 0]

\* `for (let i = 0; i < 12; i++)`
seedLast12Months ==
    [label \in {formatMonthRolling(setMonth(date, getMonth(date) + i)) :
                    date \in {twelveMonthsAgo}, i \in 0..11} |-> 0]

seedByWeekday ==
    [name \in {"Monday", "Tuesday", "Wednesday", "Thursday", "Friday", "Saturday", "Sunday"}
        |-> 0]

\* The hours counted from 1.
seedByHour_FromOne == [hour \in 1..24 |-> 0]

\* `for (let i = 0; i < 24; i++)`
seedByHour == [hour \in 0..23 |-> 0]

\* The five loops `for (const commit of filteredCommits)`, each on its own map
\* of the views.
RECURSIVE countLast30Days(_, _, _)
countLast30Days(filtered, i, views) ==
    IF i > Len(filtered)
    THEN views
    ELSE countLast30Days(filtered, i + 1,
             [views EXCEPT !.last30Days =
                 IF NotBefore(filtered[i].date, thirtyDaysAgo)
                 THEN MapInc(@, formatDayRolling(filtered[i].date))
                 ELSE @])

RECURSIVE countLast12Months(_, _, _)
countLast12Months(filtered, i, views) ==
    IF i > Len(filtered)
    THEN views
    ELSE countLast12Months(filtered, i + 1,
             [views EXCEPT !.last12Months =
                 IF NotBefore(filtered[i].date, twelveMonthsAgo)
                 THEN MapInc(@, formatMonthRolling(filtered[i].date))
                 ELSE @])

\* Every author seeded with 0, as the other views are.
countUserTotals_Seeded(filtered, i, views) ==
    [views EXCEPT !.userTotals =
        [a \in Authors |-> Cardinality({j \in i..Len(filtered) : filtered[j].author = a})]]

RECURSIVE countUserTotals(_, _, _)
countUserTotals(filtered, i, views) ==
    IF i > Len(filtered)
    THEN views
    ELSE countUserTotals(filtered, i + 1,
             [views EXCEPT !.userTotals = MapInc(@, filtered[i].author)])

RECURSIVE countByWeekday(_, _, _)
countByWeekday(filtered, i, views) ==
    IF i > Len(filtered)
    THEN views
    ELSE countByWeekday(filtered, i + 1,
             [views EXCEPT !.byWeekday = MapInc(@, getWeekdayName(filtered[i].date))])

RECURSIVE countByHour(_, _, _)
countByHour(filtered, i, views) ==
    IF i > Len(filtered)
    THEN views
    ELSE countByHour(filtered, i + 1,
             [views EXCEPT !.byHour = MapInc(@, getHours(filtered[i].date))])

aggregateCommitsRolling(commits, startDate, endDate) ==
    Only({Only({countByHour(filtered, 1,
                    countByWeekday(filtered, 1,
                        countUserTotals(filtered, 1,
                            countLast12Months(filtered, 1,
                                countLast30Days(filtered, 1,
                                    [last30Days   |-> seedLast30Days,
                                     last12Months |-> seedLast12Months,
                                     userTotals   |-> EmptyMap,
                                     byWeekday    |-> seedByWeekday,
                                     byHour       |-> seedByHour,
                                     dateRange    |-> [start |-> start, end |-> end]]))))) :
                filtered \in {filteredCommitsRolling(commits, start, end)}}) :
          start \in {normalizedStartRolling(startDate)},
          end   \in {normalizedEndRolling(endDate)}})

----------------------------------------------------------------------------
(* Both aggregators, on any commit list and any range with start <= end, in a
   process of a time zone without daylight saving time; the rolling one at
   any of the current instants. *)

\* 2024-02-29 12:00 and 2023-01-01 00:30 UTC.
CurrentInstants ==
    {Instant(daysFromCivil(2024, 2, 29), 12 * HourMs),
     Instant(daysFromCivil(2023, 1, 1), HourMs \div 2)}

\* The local calendar day of the current instant.
Today(now, tz) == now.day + ((now.ms + tz * HourMs) \div DayMs)

\* The instant `back` milliseconds before local midnight of the day.
BeforeMidnight(day, tz, back) ==
    Instant(day + ((0 - tz * HourMs - back) \div DayMs), (0 - tz * HourMs - back) % DayMs)

\* The first day of the month of the day, a year earlier.
MonthStartLastYear(day) == daysFromCivil(civil(day).year - 1, civil(day).month, 1)

\* The current instant; local midnight 30 days before today and the
\* millisecond before it; local midnight of the first day of the month twelve
\* months back and the millisecond before it.
RollingInstants(now, tz) ==
    {now,
     BeforeMidnight(Today(now, tz) - 30, tz, 0),
     BeforeMidnight(Today(now, tz) - 30, tz, 1),
     BeforeMidnight(MonthStartLastYear(Today(now, tz)), tz, 0),
     BeforeMidnight(MonthStartLastYear(Today(now, tz)), tz, 1)}

RollingCommits(now, tz) ==
    [revision : {1}, author : Authors, date : RollingInstants(now, tz), message : {"m"}]

\* From 400 days back, or from 30 days back, through the current instant.
RollingRanges(now, tz) ==
    {[startDate |-> Instant(now.day - 400, now.ms), endDate |-> now],
     [startDate |-> Instant(now.day - 30, now.ms), endDate |-> now]}

InitRolling ==
    /\ dataFile = None
    /\ clock = 0
    /\ upstream = <<>>
    /\ last = Idle("init")
    /\ \E tz \in TzHours : \E now \in CurrentInstants :
       \E commits \in UNION {[1..k -> RollingCommits(now, tz)] : k \in 0..MaxCommits} :
       \E range \in RollingRanges(now, tz) :
          args = [fn |-> "aggregateCommitsRolling", tz |-> tz, dst |-> {}, now |-> now,
                  commits |-> commits,
                  startDate |-> range.startDate, endDate |-> range.endDate]
    /\ result = <<>>

AggregateRolling ==
    /\ args.fn = "aggregateCommitsRolling"
    /\ result = <<>>
    /\ result' = <<aggregateCommitsRolling(args.commits, args.startDate, args.endDate)>>
    /\ UNCHANGED <<dataFile, clock, upstream, last, args>>

\* The inputs of aggregator.ts in a process at UTC, or those of the rolling
\* aggregator.
InitDash == (InitAgg /\ args.tz = 0) \/ InitRolling

NextDash == Aggregate \/ AggregateRolling

SpecDash == InitDash /\ [][NextDash]_vars

AggregatedRolling == args.fn = "aggregateCommitsRolling" /\ result # <<>>

\* The filtered commits of the rolling aggregator.
InRangeRolling ==
    {i \in DOMAIN args.commits :
        /\ NotBefore(args.commits[i].date, normalizedStartRolling(args.startDate))
        /\ NotBefore(normalizedEndRolling(args.endDate), args.commits[i].date)}

AllZero(map) == \A k \in DOMAIN map : map[k] = 0

\* C12: when no commit falls in the normalized range, the aggregation returns
\* with every day, week and month of the range present at 0 and no author in a
\* per-author map; the rolling aggregation returns with every last-30-days,
\* last-12-months, weekday and hour bucket at 0 and no author in the totals.
C12_EmptyIsZero ==
    /\ (Aggregated /\ InRange = {}) =>
          /\ DOMAIN result[1].daily = {formatDay(localMidnight(n)) : n \in DaysOfRange}
          /\ DOMAIN result[1].weekly = {formatWeek(localMidnight(n)) : n \in DaysOfRange}
          /\ DOMAIN result[1].monthly = {formatMonth(localMidnight(n)) : n \in DaysOfRange}
          /\ AllZero(result[1].daily)
          /\ AllZero(result[1].weekly)
          /\ AllZero(result[1].monthly)
          /\ result[1].userDaily = EmptyMap
          /\ result[1].userWeekly = EmptyMap
          /\ result[1].userMonthly = EmptyMap
    /\ (AggregatedRolling /\ InRangeRolling = {}) =>
          /\ AllZero(result[1].last30Days)
          /\ AllZero(result[1].last12Months)
          /\ AllZero(result[1].byWeekday)
          /\ AllZero(result[1].byHour)
          /\ result[1].userTotals = EmptyMap

\* C12 witness: the rolling aggregation of two commits, both before the range.
C12_Witness ==
    /\ AggregatedRolling
    /\ Len(args.commits) = 2
    /\ InRangeRolling = {}
    /\ Cardinality(DOMAIN result[1].byHour) = 24

\* The label of the local day `back` days before the day of the call.
DayLabelBack(back) ==
    formatDayRolling(BeforeMidnight(Today(args.now, args.tz) - back, args.tz, 0))

\* C13: the last-30-days view has exactly 30 keys, the day labels from 29
\* days before today through today; today's key is always there and no other
\* key ever is.
C13_Last30Domain ==
    AggregatedRolling =>
        /\ DOMAIN result[1].last30Days = {DayLabelBack(back) : back \in 0..29}
        /\ Cardinality(DOMAIN result[1].last30Days) = 30

\* Local midnight of the day 30 days before the day of the call.
MidnightThirtyBack == BeforeMidnight(Today(args.now, args.tz) - 30, args.tz, 0)

\* C14: a commit inside the reporting range dated exactly local midnight 30
\* days before today is counted in the last-30-days view, under the label of
\* that day; a commit of the day 31 days before today is not counted: every
\* bucket holds the filtered commits of its day dated at or after that
\* midnight, and the day 31 days back has no bucket.
C14_WindowBoundary ==
    AggregatedRolling =>
        /\ \A i \in InRangeRolling :
              args.commits[i].date = MidnightThirtyBack =>
                  /\ DayLabelBack(30) \in DOMAIN result[1].last30Days
                  /\ result[1].last30Days[DayLabelBack(30)] >= 1
        /\ \A k \in DOMAIN result[1].last30Days :
              result[1].last30Days[k] = Cardinality(
                  {i \in InRangeRolling :
                      /\ NotBefore(args.commits[i].date, MidnightThirtyBack)
                      /\ formatDayRolling(args.commits[i].date) = k})
        /\ DayLabelBack(31) \notin DOMAIN result[1].last30Days

\* C14 witness: the range holds a commit at that midnight and a commit of the
\* millisecond before it; the view counts one commit, on the day 30 days back.
C14_Witness ==
    /\ AggregatedRolling
    /\ Cardinality(InRangeRolling) = 2
    /\ \E i \in InRangeRolling : args.commits[i].date = MidnightThirtyBack
    /\ \E i \in InRangeRolling :
          formatDayRolling(args.commits[i].date) = DayLabelBack(31)
    /\ result[1].last30Days[DayLabelBack(30)] = 1
    /\ MapSum(result[1].last30Days) = 1

\* The label of the month `back` months before the month of the call.
MonthLabelBack(back) ==
    LET today == civil(Today(args.now, args.tz))
        index == today.year * 12 + (today.month - 1) - back
    IN  [year |-> index \div 12, month |-> (index % 12) + 1]

\* The first instant of the month 11 months before the month of the call.
FirstOfElevenBack ==
    BeforeMidnight(daysFromCivil(MonthLabelBack(11).year, MonthLabelBack(11).month, 1),
                   args.tz, 0)

\* C15: the last-12-months view has exactly 12 keys, the month labels from 11
\* months before the current month through the current month, and each holds
\* the filtered commits of its month dated at or after the first of those
\* months.
C15_Last12Domain ==
    AggregatedRolling =>
        /\ DOMAIN result[1].last12Months = {MonthLabelBack(back) : back \in 0..11}
        /\ Cardinality(DOMAIN result[1].last12Months) = 12
        /\ \A k \in DOMAIN result[1].last12Months :
              result[1].last12Months[k] = Cardinality(
                  {i \in InRangeRolling :
                      /\ NotBefore(args.commits[i].date, FirstOfElevenBack)
                      /\ formatMonthRolling(args.commits[i].date) = k})

\* C16: the weekday map has exactly the 7 keys Monday..Sunday and the hour
\* map exactly the 24 keys 0..23, and each of the two sums to the number of
\* filtered commits.
C16_FixedDomains ==
    AggregatedRolling =>
        /\ DOMAIN result[1].byWeekday =
              {"Monday", "Tuesday", "Wednesday", "Thursday", "Friday", "Saturday", "Sunday"}
        /\ DOMAIN result[1].byHour = 0..23
        /\ MapSum(result[1].byWeekday) = Cardinality(InRangeRolling)
        /\ MapSum(result[1].byHour) = Cardinality(InRangeRolling)

\* C16 witness: two filtered commits of different weekdays and hours, one of
\* them in hour 0.
C16_Witness ==
    /\ AggregatedRolling
    /\ Cardinality(InRangeRolling) = 2
    /\ result[1].byHour[0] = 1
    /\ \E h \in 1..23 : result[1].byHour[h] = 1
    /\ Cardinality({d \in DOMAIN result[1].byWeekday : result[1].byWeekday[d] = 1}) = 2

\* The filtered commits of one author, in the rolling aggregator.
InRangeRollingOf(author) == {i \in InRangeRolling : args.commits[i].author = author}

\* C17: the author totals hold an author iff the author has a filtered commit,
\* each value is the number of the author's filtered commits (never 0), and
\* the values sum to the number of filtered commits.
C17_UserTotals ==
    AggregatedRolling =>
        /\ DOMAIN result[1].userTotals = {args.commits[i].author : i \in InRangeRolling}
        /\ \A a \in DOMAIN result[1].userTotals :
              /\ result[1].userTotals[a] = Cardinality(InRangeRollingOf(a))
              /\ result[1].userTotals[a] >= 1
        /\ MapSum(result[1].userTotals) = Cardinality(InRangeRolling)

\* C17 witness: one author with two filtered commits, the other author with
\* none.
C17_Witness ==
    /\ AggregatedRolling
    /\ DOMAIN result[1].userTotals = {"a"}
    /\ result[1].userTotals["a"] = 2
    /\ InRangeRollingOf("b") = {}

----------------------------------------------------------------------------
(* formatWeek on any instant of the years FirstYear..LastYear, in a process of
   any of the time zones: UTC, UTC-5, a southern zone at UTC+10 with daylight
   saving time from October through March, and a northern zone at UTC+1 with
   daylight saving time from April through October. *)

TimeZones ==
    {[tz |-> 0, dst |-> {}],
     [tz |-> 0 - 5, dst |-> {}],
     [tz |-> 10, dst |-> {10, 11, 12, 1, 2, 3}],
     [tz |-> 1, dst |-> {4, 5, 6, 7, 8, 9, 10}]}

\* 00:00 and 23:00 UTC of every day of the years.
WeekInstants ==
    {Instant(n, ms) : n \in daysFromCivil(FirstYear, 1, 1)..daysFromCivil(LastYear, 12, 31),
                      ms \in {0, 23 * HourMs}}

InitWeek ==
    /\ dataFile = None
    /\ clock = 0
    /\ upstream = <<>>
    /\ last = Idle("init")
    /\ \E zone \in TimeZones : \E date \in WeekInstants :
          args = [fn |-> "formatWeek", tz |-> zone.tz, dst |-> zone.dst, date |-> date]
    /\ result = <<>>

FormatWeek ==
    /\ args.fn = "formatWeek"
    /\ result = <<>>
    /\ result' = <<formatWeek(args.date)>>
    /\ UNCHANGED <<dataFile, clock, upstream, last, args>>

NextWeek == FormatWeek

SpecWeek == InitWeek /\ [][NextWeek]_vars

\* ISO 8601: Monday is day 1 of the week and Sunday day 7; day 0 is a Thursday.
IsoWeekday(n) == ((n + 3) % 7) + 1

\* The Thursday of the week of day n.
ThursdayOf(n) == n - IsoWeekday(n) + 4

\* The first Thursday of the year.
FirstThursday(year) ==
    CHOOSE n \in daysFromCivil(year, 1, 1)..daysFromCivil(year, 1, 7) : IsoWeekday(n) = 4

\* The ISO 8601 week of day n: the year of the week's Thursday, and the
\* week's number counted from the week of that year's first Thursday.
IsoWeekOf(n) ==
    [year |-> civil(ThursdayOf(n)).year,
     week |-> ((ThursdayOf(n) - FirstThursday(civil(ThursdayOf(n)).year)) \div 7) + 1]

\* C18: the week label of every date is its ISO 8601 week, with a week number
\* in 1..53 and the year of the Thursday of the date's week; 2023-01-01 is
\* labelled 2022-W52.
C18_IsoWeekLabel ==
    (args.fn = "formatWeek" /\ result # <<>>) =>
        /\ result[1] = IsoWeekOf(localTime(args.date).day)
        /\ result[1].week \in 1..53
        /\ civil(localTime(args.date).day) = [year |-> 2023, month |-> 1, day |-> 1]
              => result[1] = [year |-> 2022, week |-> 52]

----------------------------------------------------------------------------
\* The first position of the revision in the sequence.
FirstOf(commits, revision) ==
    CHOOSE i \in DOMAIN commits :
        /\ commits[i].revision = revision
        /\ \A j \in 1..(i - 1) : commits[j].revision # revision

\* C19: of the incoming records of one revision that is not in the existing
\* set, the merged sequence holds the first one and no other.
C19_FirstIncomingWins ==
    Len(result) >= 1 /\ args.fn = "merge" =>
        \A c \in {args.incoming[i] : i \in DOMAIN args.incoming} :
            c.revision \notin existingRevisions(args.existing) =>
                /\ {result[1].merged[i] : i \in WithRevision(result[1].merged, c.revision)} =
                        {args.incoming[FirstOf(args.incoming, c.revision)]}
                /\ Cardinality(WithRevision(result[1].merged, c.revision)) = 1

----------------------------------------------------------------------------
\* C20: a gather run whose fetch parses to zero commits ends before the span
\* is recomputed and leaves the data file as it was; a run that recomputes the
\* span and saves has fetched at least one commit and computes the span over
\* a sequence that is not empty.
C20_EmptyFetchWritesNothing ==
    [][(last'.op \in {"gather", "gatherCli"}) =>
          /\ last'.outcome \in {"uptodate", "fatal", "nocommits", "saved"}
          /\ last'.outcome = "nocommits" => dataFile' = dataFile
          /\ last'.outcome = "saved" =>
                /\ last'.newCount + Len(last'.dropped) > 0
                /\ Len(persisted') > 0
                /\ dataFile' # None]_vars

\* C20 witness: an incremental run fetched nothing, and the data file of the
\* run before it is still there.
C20_Witness ==
    /\ GatherRan
    /\ last.outcome = "nocommits"
    /\ last.invoked
    /\ last.params # NoParams
    /\ Len(persisted) > 0

----------------------------------------------------------------------------
(* generate.ts *)

MaxRelativeDays == 2   \* --relative-days is 0..MaxRelativeDays

DATA_FILE == [dir |-> ".", name |-> "svn_data.json"]

\* path.join(outputDir, name)
join(outputDir, name) == [dir |-> outputDir, name |-> name]

\* The Date of a count of milliseconds from instant 0.
asInstant(t) == Instant(EpochDay + (t \div DayMs), t % DayMs)

\* The commits of the data file, as the aggregator takes them.
dataCommits(data) ==
    [i \in DOMAIN data.commits |->
        [revision |-> data.commits[i].revision,
         author   |-> data.commits[i].author,
         date     |-> asInstant(data.commits[i].date),
         message  |-> data.commits[i].message]]

\* 'relative-days': z.coerce.number().int().positive().optional()
GenerateArgsSchema(cliArgs) ==
    cliArgs.relativeDays = None \/ cliArgs.relativeDays[1] > 0

\* new Date('YYYY-MM-DD'): midnight UTC of the day; the day of month is taken
\* up to 31 and carried into the next month, any other month or day makes an
\* invalid date.
newDateOnly(ymd) ==
    IF ymd.month \in 1..12 /\ ymd.day \in 1..31
    THEN Some(Instant(daysFromCivil(ymd.year, ymd.month, 1) + ymd.day - 1, 0))
    ELSE None

\* The value returned, or the throw, of calculateDateRange.
Returns(range) == [throws |-> FALSE, range |-> range]

Throws == [throws |-> TRUE, range |-> None]

\* The day before the run is N days back.
relativeStart_FromYesterday(now, relativeDays) ==
    setDate(now, getDate(now) - relativeDays + 1)

\* `start.setDate(start.getDate() - args['relative-days'])`
relativeStart(now, relativeDays) == setDate(now, getDate(now) - relativeDays)

calculateDateRange(cliArgs, now) ==
    IF cliArgs.dateRange = None /\ cliArgs.relativeDays = None
    THEN Returns(None)
    ELSE IF cliArgs.relativeDays # None
    THEN Returns(Some([start |-> relativeStart(now, cliArgs.relativeDays[1]),
                       end   |-> now]))
    ELSE IF ~cliArgs.dateRange[1].match
    THEN Throws
    ELSE IF \/ newDateOnly(cliArgs.dateRange[1].first) = None
            \/ newDateOnly(cliArgs.dateRange[1].second) = None
    THEN Throws
    ELSE Returns(Some([start |-> newDateOnly(cliArgs.dateRange[1].first)[1],
                       end   |-> newDateOnly(cliArgs.dateRange[1].second)[1]]))

\* The stored range is taken whatever --relative-days says.
hasOverride_DateRangeOnly(cliArgs) == cliArgs.dateRange # None

\* `args['date-range'] !== undefined || args['relative-days'] !== undefined`
hasOverride(cliArgs) == cliArgs.dateRange # None \/ cliArgs.relativeDays # None

\* What one run of the generate command did: how it ended, the range it called
\* aggregateCommits with, the views it rendered and the file it wrote.
Generated(outcome, call, aggregated, written) ==
    [outcome |-> outcome, call |-> call, aggregated |-> aggregated, written |-> written]

\* The rendered page lands on the data file.
outputPath_DataFile(outputDir) == DATA_FILE

\* `join(outputDir, 'index.html')`
outputPath(outputDir) == join(outputDir, "index.html")

\* The state of the data file after writeFile(path, html).
writeFile(path, html) == IF path = DATA_FILE THEN Some(html) ELSE dataFile

\* generateHtml; `clientJs` says whether dist/client/main.js is there.
generateHtml(call, aggregated, outputDir, clientJs) ==
    IF ~clientJs
    THEN /\ result' = <<Generated("fatal", Some(call), None, None)>>
         /\ dataFile' = dataFile
    ELSE /\ result' = <<Generated("rendered", Some(call), Some(aggregated),
                                  Some(outputPath(outputDir)))>>
         /\ dataFile' = writeFile(outputPath(outputDir), [html |-> aggregated])

\* main: parseCliArgs, then executeGenerate.
executeGenerate(cliArgs, clientJs) ==
    /\ last' = Idle("generate")
    /\ UNCHANGED <<clock, upstream, args>>
    /\ IF ~GenerateArgsSchema(cliArgs)
       THEN /\ result' = <<Generated("usage", None, None, None)>>
            /\ dataFile' = dataFile
       ELSE IF dataFile = None
       THEN /\ result' = <<Generated("fatal", None, None, None)>>
            /\ dataFile' = dataFile
       ELSE \E data \in {deserializeData(dataFile[1])} :
            \E calculated \in {IF hasOverride(cliArgs)
                               THEN calculateDateRange(cliArgs, asInstant(clock))
                               ELSE Returns(Some([start |-> asInstant(data.dateRange.start),
                                                  end   |-> asInstant(data.dateRange.end)]))} :
               IF calculated.throws \/ calculated.range = None
               THEN /\ result' = <<Generated("fatal", None, None, None)>>
                    /\ dataFile' = dataFile
               ELSE \E range \in {calculated.range[1]} :
                    \E aggregated \in {aggregateCommits(dataCommits(data),
                                                        range.start, range.end)} :
                       generateHtml(range, aggregated, cliArgs.outputDir, clientJs)

----------------------------------------------------------------------------
(* The generate command on a data file a gather run has written, or on none,
   at some instant of the last day, in a process of any of the time zones. *)

\* Half past midnight and 23:00 UTC of day MaxDay.
GenClocks == {MaxDay * DayMs + (HourMs \div 2), MaxDay * DayMs + 23 * HourMs}

\* Noon UTC of the days 0..MaxDay.
StoredDates == {d * DayMs + (DayMs \div 2) : d \in 0..MaxDay}

StoredCommit(revision, date) ==
    [revision |-> revision, author |-> "a", date |-> date, message |-> "m"]

StoredLists ==
    {<<StoredCommit(1, x)>> : x \in StoredDates}
        \cup {<<StoredCommit(1, dates[1]), StoredCommit(2, dates[2])>> :
                dates \in {d \in StoredDates \X StoredDates : d[1] < d[2]}}

DataFiles ==
    {None} \cup {Some(serializeData(commits, actualDateRange(commits))) :
                    commits \in StoredLists}

\* The calendar date of day d after EpochDay.
Ymd(d) == civil(EpochDay + d)

DateRangeArg(match, first, second) ==
    [match |-> match, first |-> first, second |-> second]

\* No option; a string that is not two dates; a month 13; any two days.
DateRangeArgs ==
    {None, Some(DateRangeArg(FALSE, Ymd(0), Ymd(0))),
     Some(DateRangeArg(TRUE, [Ymd(0) EXCEPT !.month = 13], Ymd(0)))}
        \cup {Some(DateRangeArg(TRUE, Ymd(s), Ymd(e))) : s \in 0..MaxDay, e \in 0..MaxDay}

RelativeDaysArgs == {None} \cup {Some(n) : n \in 0..MaxRelativeDays}

OutputDirs == {"output", "."}

InitGen ==
    /\ dataFile \in DataFiles
    /\ clock \in GenClocks
    /\ upstream = <<>>
    /\ last = Idle("init")
    /\ \E tz \in TzHours : \E dateRangeArg \in DateRangeArgs :
       \E relativeDays \in RelativeDaysArgs : \E outputDir \in OutputDirs :
          args = [fn |-> "generate", tz |-> tz, dst |-> {}, dateRange |-> dateRangeArg,
                  relativeDays |-> relativeDays, outputDir |-> outputDir]
    /\ result = <<>>

Generate ==
    /\ args.fn = "generate"
    /\ result = <<>>
    /\ \E clientJs \in BOOLEAN : executeGenerate(args, clientJs)

NextGen == Generate

SpecGen == InitGen /\ [][NextGen]_vars

GenerateRan == args.fn = "generate" /\ result # <<>>

\* The range the data file holds.
storedInstants ==
    [start |-> asInstant(deserializeData(dataFile[1]).dateRange.start),
     end   |-> asInstant(deserializeData(dataFile[1]).dateRange.end)]

\* The local calendar day of an instant, in days since 1970-01-01.
LocalDay(date) == Shifted(date, args.tz).day

\* C21: a generate run that reaches the aggregation calls it with the range of
\* the data file when neither --date-range nor --relative-days is given; when
\* one is given it calls it with the range of the option, taken from the
\* option and the clock alone: the N days back to now of --relative-days, or
\* else the two dates of --date-range.
C21_RangeSelection ==
    GenerateRan /\ result[1].call # None =>
        /\ (args.dateRange = None /\ args.relativeDays = None)
              => result[1].call[1] = storedInstants
        /\ args.relativeDays # None
              => /\ result[1].call[1].end = asInstant(clock)
                 /\ LocalDay(result[1].call[1].start)
                        = LocalDay(asInstant(clock)) - args.relativeDays[1]
        /\ (args.relativeDays = None /\ args.dateRange # None)
              => /\ result[1].call[1].start.day
                        = daysFromCivil(args.dateRange[1].first.year,
                                        args.dateRange[1].first.month,
                                        args.dateRange[1].first.day)
                 /\ result[1].call[1].end.day
                        = daysFromCivil(args.dateRange[1].second.year,
                                        args.dateRange[1].second.month,
                                        args.dateRange[1].second.day)

\* C21 witness: runs with --relative-days rendered a range that is not the
\* stored one.
C21_Witness ==
    /\ GenerateRan
    /\ result[1].outcome = "rendered"
    /\ args.relativeDays # None
    /\ args.dateRange = None
    /\ result[1].call[1] # storedInstants

\* The two dates of --date-range, in days since 1970-01-01.
FirstDay ==
    daysFromCivil(args.dateRange[1].first.year, args.dateRange[1].first.month,
                  args.dateRange[1].first.day)

SecondDay ==
    daysFromCivil(args.dateRange[1].second.year, args.dateRange[1].second.month,
                  args.dateRange[1].second.day)

\* The run had --date-range alone, two dates of the calendar.
DateRangeGiven ==
    /\ GenerateRan
    /\ args.relativeDays = None
    /\ args.dateRange # None
    /\ args.dateRange[1].match
    /\ args.dateRange[1].first.month \in 1..12
    /\ args.dateRange[1].second.month \in 1..12

\* C22: the generate command calls aggregateCommits only with a range whose
\* normalized start is not after its normalized end, and a --date-range whose
\* first date is later than its second ends the run before the call.
C22_CallerValidates ==
    GenerateRan =>
        /\ result[1].call # None =>
              NotBefore(normalizedEnd(result[1].call[1].end),
                        normalizedStart(result[1].call[1].start))
        /\ (DateRangeGiven /\ FirstDay > SecondDay) => result[1].call = None

\* C24: a step of the generate command leaves the data file as it was, and
\* the file it writes, when it writes one, is not the data file.
C24_DataFileUntouched ==
    [][last'.op = "generate" =>
          /\ dataFile' = dataFile
          /\ result'[1].written # Some(DATA_FILE)]_vars

\* C24 witness: a run with a range override rendered its views from a data
\* file.
C24_Witness ==
    /\ GenerateRan
    /\ result[1].outcome = "rendered"
    /\ result[1].written # None
    /\ hasOverride(args)
    /\ dataFile # None

\* The label `YYYY-MM-DD` of calendar day n.
DayLabel(n) == [year |-> civil(n).year, month |-> civil(n).month, day |-> civil(n).day]

\* C27: a rendered run with --date-range S:E alone, S <= E, aggregates from
\* local midnight of day S to local 23:59:59.999 of day E, and the keys of
\* its daily view are the days S..E.
C27_DateRangeDays ==
    (DateRangeGiven /\ result[1].outcome = "rendered" /\ FirstDay <= SecondDay) =>
        /\ result[1].aggregated[1].dateRange.start = localMidnight(FirstDay)
        /\ result[1].aggregated[1].dateRange.end = fromLocalTime(SecondDay, DayMs - 1)
        /\ DOMAIN result[1].aggregated[1].daily = {DayLabel(n) : n \in FirstDay..SecondDay}

\* The local day of the run.
RunDay == LocalDay(asInstant(clock))

\* C29: a rendered run with --relative-days N aggregates from local midnight
\* of the day N days before today to 23:59:59.999 of today, start before end,
\* and its daily view has the N + 1 days from there to today as keys.
C29_RelativeDays ==
    (GenerateRan /\ result[1].outcome = "rendered" /\ args.relativeDays # None) =>
        /\ result[1].aggregated[1].dateRange.start
              = localMidnight(RunDay - args.relativeDays[1])
        /\ result[1].aggregated[1].dateRange.end = fromLocalTime(RunDay, DayMs - 1)
        /\ NotBefore(result[1].aggregated[1].dateRange.end,
                     result[1].aggregated[1].dateRange.start)
        /\ DOMAIN result[1].aggregated[1].daily
              = {DayLabel(n) : n \in (RunDay - args.relativeDays[1])..RunDay}
        /\ Cardinality(DOMAIN result[1].aggregated[1].daily) = args.relativeDays[1] + 1

\* C29 witness: the last two days and today, in a zone where today is the day
\* before the UTC day of the run.
C29_Witness ==
    /\ GenerateRan
    /\ result[1].outcome = "rendered"
    /\ args.relativeDays = Some(2)
    /\ RunDay < asInstant(clock).day
    /\ Cardinality(DOMAIN result[1].aggregated[1].daily) = 3

----------------------------------------------------------------------------
\* Settlements of exportSvnLog a run cannot use: svn failed, or its output
\* begins with the logentry of revision 0, which has no author, alone or
\* followed by a logentry that parses.
FailingOutputs ==
    {Rejected} \cup {Resolved(<<RevisionZero>> \o x) : x \in {y \in ValidLogs : Len(y) <= 1}}

\* C23: a gather run whose fetch fails, or whose fetched log has one record
\* that does not parse, ends as fatal and leaves the data file as it was:
\* none of the fetched records is merged.  Every gather step either ends so,
\* or is the step of no failing settlement.
C23_FailureIsAtomic ==
    [][\/ last'.op # "gather"
       \/ /\ last'.outcome \in {"fatal", "uptodate"}
          /\ last'.invoked => last'.outcome = "fatal"
          /\ dataFile' = dataFile
          /\ persisted' = persisted
       \/ \A out \in FailingOutputs : ~executeGather({out})]_vars

\* C23 witness: an incremental run has ended as fatal, and the commits of the
\* run before it are still the persisted ones.
C23_Witness ==
    /\ GatherRan
    /\ last.outcome = "fatal"
    /\ last.params # NoParams
    /\ Len(persisted) > 0

----------------------------------------------------------------------------
\* The first element moved to the end.
Rotate(x) == IF Len(x) = 0 THEN x ELSE Append(Tail(x), Head(x))

\* The reversal and the rotation of a list: every permutation of it is a
\* composition of the two.
Reordered(commits) ==
    IF Len(commits) < 2 THEN {} ELSE {Reverse(commits), Rotate(commits)}

\* C25: both aggregators return the same maps, and so the same count under
\* every key of every view, for a commit list and for the list reversed or
\* rotated, over the same range.
C25_OrderInsensitive ==
    /\ Aggregated =>
          \A reordered \in Reordered(args.commits) :
              aggregateCommits(reordered, args.startDate, args.endDate) = result[1]
    /\ AggregatedRolling =>
          \A reordered \in Reordered(args.commits) :
              aggregateCommitsRolling(reordered, args.startDate, args.endDate) = result[1]

\* C25 witness: two commits of different authors and days, both counted.
C25_Witness ==
    /\ Aggregated
    /\ Len(args.commits) = 2
    /\ InRange = {1, 2}
    /\ args.commits[1].author # args.commits[2].author
    /\ formatDay(args.commits[1].date) # formatDay(args.commits[2].date)
    /\ MapSum(result[1].daily) = 2

----------------------------------------------------------------------------
\* The commits with normalizedStart <= date <= normalizedEnd that carry the
\* label under the formatter named.
Inclusive(view, label) ==
    {i \in DOMAIN args.commits :
        /\ NotBefore(args.commits[i].date, normalizedStart(args.startDate))
        /\ NotBefore(normalizedEnd(args.endDate), args.commits[i].date)
        /\ label = (CASE view = "day"   -> formatDay(args.commits[i].date)
                      [] view = "week"  -> formatWeek(args.commits[i].date)
                      [] view = "month" -> formatMonth(args.commits[i].date))}

InclusiveOf(author, view, label) ==
    {i \in Inclusive(view, label) : args.commits[i].author = author}

\* The count an author's map holds under a label, 0 without the map.
UserCount(userMap, author, label) ==
    IF MapHas(userMap, author) THEN MapGet(userMap[author], label) ELSE 0

\* C26: the count under every day, week and month label, overall and of each
\* author, is the number of commits of that label whose date is from
\* normalizedStart through normalizedEnd, both ends included; a commit before
\* normalizedStart or after normalizedEnd adds to no count.
C26_InclusiveBounds ==
    Aggregated =>
        /\ \A k \in DOMAIN result[1].daily :
              /\ result[1].daily[k] = Cardinality(Inclusive("day", k))
              /\ \A a \in Authors :
                    UserCount(result[1].userDaily, a, k)
                        = Cardinality(InclusiveOf(a, "day", k))
        /\ \A k \in DOMAIN result[1].weekly :
              /\ result[1].weekly[k] = Cardinality(Inclusive("week", k))
              /\ \A a \in Authors :
                    UserCount(result[1].userWeekly, a, k)
                        = Cardinality(InclusiveOf(a, "week", k))
        /\ \A k \in DOMAIN result[1].monthly :
              /\ result[1].monthly[k] = Cardinality(Inclusive("month", k))
              /\ \A a \in Authors :
                    UserCount(result[1].userMonthly, a, k)
                        = Cardinality(InclusiveOf(a, "month", k))
        /\ \A a \in DOMAIN result[1].userDaily :
              DOMAIN result[1].userDaily[a] \subseteq DOMAIN result[1].daily
        /\ \A a \in DOMAIN result[1].userWeekly :
              DOMAIN result[1].userWeekly[a] \subseteq DOMAIN result[1].weekly
        /\ \A a \in DOMAIN result[1].userMonthly :
              DOMAIN result[1].userMonthly[a] \subseteq DOMAIN result[1].monthly

\* C26 witness: a commit at local midnight of the start day is counted, and a
\* commit one millisecond after 23:59:59.999 of the end day is not.
C26_Witness ==
    /\ Aggregated
    /\ Len(args.commits) = 2
    /\ args.commits[1].date = normalizedStart(args.startDate)
    /\ args.commits[2].date = localMidnight(localTime(args.endDate).day + 1)
    /\ result[1].daily[formatDay(args.commits[1].date)] = 1
    /\ MapSum(result[1].daily) = 1
    /\ DOMAIN result[1].userDaily = {args.commits[1].author}

----------------------------------------------------------------------------
\* The sum, over the authors of a user map, of the author's count for the
\* label, 0 where the author's map has no such label.
AuthorSum(userMap, label) ==
    MapSum([a \in DOMAIN userMap |-> MapGet(userMap[a], label)])

\* C28: under every label of the daily, weekly and monthly views, the counts
\* of the authors sum to the overall count.
C28_AuthorsSumToOverall ==
    Aggregated =>
        /\ \A k \in DOMAIN result[1].daily :
              AuthorSum(result[1].userDaily, k) = result[1].daily[k]
        /\ \A k \in DOMAIN result[1].weekly :
              AuthorSum(result[1].userWeekly, k) = result[1].weekly[k]
        /\ \A k \in DOMAIN result[1].monthly :
              AuthorSum(result[1].userMonthly, k) = result[1].monthly[k]

\* C28 witness: two authors have one commit each on the same day, and
\* another day of the range has no commit.
C28_Witness ==
    /\ Aggregated
    /\ DOMAIN result[1].userDaily = Authors
    /\ \E k \in DOMAIN result[1].daily :
          /\ result[1].daily[k] = 2
          /\ \A a \in Authors : MapGet(result[1].userDaily[a], k) = 1
    /\ \E k \in DOMAIN result[1].daily : result[1].daily[k] = 0

====
